---- MODULE Spec2Model ----
(***************************************************************************)
(* Model of src/main.py: the evaluation client (evaluate_text_with_llm),   *)
(* the response aggregator (parse_llm_response_to_markdown_table) and the  *)
(* Streamlit entry point (main).                                           *)
(*                                                                         *)
(* Text is a sequence of lexical units.  Every character that matters to   *)
(* the code (braces, brackets, quote, backslash, colon, comma, blank,      *)
(* newline, the table bar) is a unit of its own; a maximal run of other    *)
(* characters (a word such as error, evaluations, true, a digit string, or *)
(* a run of Japanese text of a literal of the source) is one unit.  The    *)
(* unit CODE_FENCE is a run of three backquotes, BACKSPACE is U+0008.      *)
(*                                                                         *)
(* A Python value is a record [t, v]: t is the Python type, v the payload. *)
(*   NoneType v = 0        bool v = TRUE/FALSE     int v = the digit unit  *)
(*   str  v = sequence of units                                            *)
(*   list v = sequence of values                                           *)
(*   dict v = sequence of [k |-> str payload, v |-> value], keys unique,   *)
(*            in insertion order                                           *)
(***************************************************************************)
EXTENDS Naturals, Sequences, FiniteSets, TLC

VARIABLES pc, caller, uploaded_file, selected_rules, text, service, requests,
          llm_response, responses, idx, issue_rows, all_evaluations,
          parsing_errors, table, raised, ui

(* pc              where control is: idle, agg (loop of line 105), agg_done,   *)
(*                 agg_raised, eval_wait (request of line 77 in flight),     *)
(*                 eval_done, eval_raised, extract, main_eval, done          *)
(* caller          none, unit (a direct call of a function), main           *)
(* uploaded_file   line 140: "None" or uploaded_file.type                    *)
(* selected_rules  line 155 / the selected_rules argument                    *)
(* text            line 161 / the text_content argument                      *)
(* service         what the model service did on the call of line 77         *)
(* requests        the calls of client.chat.completions.create made so far   *)
(* llm_response    the return value of evaluate_text_with_llm                *)
(* responses, idx  the responses argument and the loop position, line 105    *)
(* issue_rows, all_evaluations, parsing_errors   lines 101-103               *)
(* table           lines 127-130                                             *)
(* raised          the exception that last left a function, or "none"        *)
(* ui              what main has put on the page, in order                   *)
vars == <<pc, caller, uploaded_file, selected_rules, text, service, requests,
          llm_response, responses, idx, issue_rows, all_evaluations,
          parsing_errors, table, raised, ui>>

(***************************** bounds **************************************)
\* longest response list handed to the aggregator by a direct call
MaxResponses == 2
\* most rules ticked in one run
MaxRules == 2

(************************* units and values ********************************)
Q == "\""
BS == "\\"
NL == "\n"
SP == " "

PyNone == [t |-> "NoneType", v |-> 0]
PyBool(b) == [t |-> "bool", v |-> b]
PyInt(d) == [t |-> "int", v |-> d]
PyStr(s) == [t |-> "str", v |-> s]
PyList(s) == [t |-> "list", v |-> s]
PyDict(s) == [t |-> "dict", v |-> s]

RECURSIVE Cat(_)
\* "".join(parts)
Cat(parts) == IF parts = <<>> THEN <<>> ELSE Head(parts) \o Cat(Tail(parts))

RECURSIVE Join(_, _)
\* sep.join(parts)
Join(sep, parts) ==
  IF parts = <<>> THEN <<>>
  ELSE IF Len(parts) = 1 THEN parts[1]
  ELSE parts[1] \o sep \o Join(sep, Tail(parts))

\* index of key k in dict payload d, 0 when absent
KeyIndex(d, k) ==
  IF \E i \in 1..Len(d) : d[i].k = k
  THEN CHOOSE i \in 1..Len(d) : d[i].k = k
  ELSE 0

\* d[k] = val on a dict payload: an existing key keeps its place
DictSet(d, k, val) ==
  IF KeyIndex(d, k) = 0 THEN Append(d, [k |-> k, v |-> val])
  ELSE [d EXCEPT ![KeyIndex(d, k)] = [k |-> k, v |-> val]]

\* dict.get(k, default) on a dict payload
DictGet(d, k, default) ==
  IF KeyIndex(d, k) = 0 THEN default ELSE d[KeyIndex(d, k)].v

(******************************* json.loads ********************************)
Whitespace == {SP, NL, "\t", "\r"}
\* the characters below U+0020, which a JSON string may not hold unescaped
ControlUnits == {NL, "\t", "\r", "\f", "BACKSPACE"}
Digits == {"0", "1", "5"}
\* escape letter -> the character it stands for
Escapes == {Q, BS, "/", "b", "f", "n", "r", "t"}
Unescape(c) ==
  IF c = "n" THEN NL
  ELSE IF c = "t" THEN "\t"
  ELSE IF c = "r" THEN "\r"
  ELSE IF c = "f" THEN "\f"
  ELSE IF c = "b" THEN "BACKSPACE"
  ELSE c

RECURSIVE SkipWs(_, _)
SkipWs(s, i) == IF i <= Len(s) /\ s[i] \in Whitespace THEN SkipWs(s, i + 1) ELSE i

Fail(i) == [ok |-> FALSE, val |-> PyNone, next |-> i]
Ok(val, i) == [ok |-> TRUE, val |-> val, next |-> i]

RECURSIVE ParseString(_, _, _)
\* the scanner is past the opening quote; acc is the text decoded so far
ParseString(s, i, acc) ==
  IF i > Len(s) THEN Fail(i)
  ELSE IF s[i] = Q THEN Ok(PyStr(acc), i + 1)
  ELSE IF s[i] \in ControlUnits THEN Fail(i)
  ELSE IF s[i] = BS
       THEN IF i + 1 <= Len(s) /\ s[i + 1] \in Escapes
            THEN ParseString(s, i + 2, Append(acc, Unescape(s[i + 1])))
            ELSE Fail(i)
  ELSE ParseString(s, i + 1, Append(acc, s[i]))

RECURSIVE ParseValue(_, _)
RECURSIVE ParseElems(_, _, _)
RECURSIVE ParseMembers(_, _, _)

\* the scanner is at the first character of an array element
ParseElems(s, i, acc) ==
  LET e == ParseValue(s, i)
      k == SkipWs(s, e.next)
  IN IF ~e.ok \/ k > Len(s) THEN Fail(k)
     ELSE IF s[k] = "," THEN ParseElems(s, k + 1, Append(acc, e.val))
     ELSE IF s[k] = "]" THEN Ok(PyList(Append(acc, e.val)), k + 1)
     ELSE Fail(k)

\* the scanner is where a member's key must start
ParseMembers(s, i, acc) ==
  LET j == SkipWs(s, i)
      key == IF j <= Len(s) /\ s[j] = Q THEN ParseString(s, j + 1, <<>>) ELSE Fail(j)
      c == SkipWs(s, key.next)
      m == IF key.ok /\ c <= Len(s) /\ s[c] = ":" THEN ParseValue(s, c + 1) ELSE Fail(c)
      k == SkipWs(s, m.next)
  IN IF ~m.ok \/ k > Len(s) THEN Fail(k)
     ELSE IF s[k] = "," THEN ParseMembers(s, k + 1, DictSet(acc, key.val.v, m.val))
     ELSE IF s[k] = "}" THEN Ok(PyDict(DictSet(acc, key.val.v, m.val)), k + 1)
     ELSE Fail(k)

ParseValue(s, i) ==
  LET j == SkipWs(s, i)
  IN IF j > Len(s) THEN Fail(j)
     ELSE IF s[j] = "{"
          THEN IF SkipWs(s, j + 1) <= Len(s) /\ s[SkipWs(s, j + 1)] = "}"
               THEN Ok(PyDict(<<>>), SkipWs(s, j + 1) + 1)
               ELSE ParseMembers(s, j + 1, <<>>)
     ELSE IF s[j] = "["
          THEN IF SkipWs(s, j + 1) <= Len(s) /\ s[SkipWs(s, j + 1)] = "]"
               THEN Ok(PyList(<<>>), SkipWs(s, j + 1) + 1)
               ELSE ParseElems(s, j + 1, <<>>)
     ELSE IF s[j] = Q THEN ParseString(s, j + 1, <<>>)
     ELSE IF s[j] = "true" THEN Ok(PyBool(TRUE), j + 1)
     ELSE IF s[j] = "false" THEN Ok(PyBool(FALSE), j + 1)
     ELSE IF s[j] = "null" THEN Ok(PyNone, j + 1)
     ELSE IF s[j] \in Digits THEN Ok(PyInt(s[j]), j + 1)
     ELSE Fail(j)

\* json.loads(s): ok is FALSE where Python raises json.JSONDecodeError
JsonLoads(s) ==
  LET r == ParseValue(s, 1)
  IN IF r.ok /\ SkipWs(s, r.next) = Len(s) + 1 THEN r ELSE Fail(r.next)

(******************************* json.dumps ********************************)
EscapeUnit(c) ==
  IF c = Q THEN <<BS, Q>>
  ELSE IF c = BS THEN <<BS, BS>>
  ELSE IF c = NL THEN <<BS, "n">>
  ELSE IF c = "\t" THEN <<BS, "t">>
  ELSE IF c = "\r" THEN <<BS, "r">>
  ELSE IF c = "\f" THEN <<BS, "f">>
  ELSE IF c = "BACKSPACE" THEN <<BS, "b">>
  ELSE <<c>>

\* json.dumps(s) of a str
JsonDumps(s) == <<Q>> \o Cat([i \in 1..Len(s) |-> EscapeUnit(s[i])]) \o <<Q>>

(************************ Python helpers used by the code ******************)
\* bool(val)
Truthy(val) ==
  IF val.t = "NoneType" THEN FALSE
  ELSE IF val.t = "bool" THEN val.v
  ELSE IF val.t = "int" THEN val.v # "0"
  ELSE val.v # <<>>

\* whether iter(val) works; Python raises TypeError where it does not
Iterable(val) == val.t \in {"list", "str", "dict"}

\* the items iteration over val yields: list elements, str characters (one
\* per unit: the str values iterated here hold one-character units), dict keys
Iterate(val) ==
  IF val.t = "list" THEN val.v
  ELSE IF val.t = "str" THEN [i \in 1..Len(val.v) |-> PyStr(<<val.v[i]>>)]
  ELSE [i \in 1..Len(val.v) |-> PyStr(val.v[i].k)]

\* key in val, for an iterable val: dict key, list element, str substring
\* (a word is one unit, so the substring test is a test for that unit)
Contains(val, key) ==
  IF val.t = "dict" THEN KeyIndex(val.v, key) # 0
  ELSE IF val.t = "list" THEN \E i \in 1..Len(val.v) : val.v[i] = PyStr(key)
  ELSE \E i \in 1..Len(val.v) : <<val.v[i]>> = key

RECURSIVE PyRepr(_)
RECURSIVE ReprItems(_)
RECURSIVE ReprMembers(_)
\* repr(val)
PyRepr(val) ==
  IF val.t = "NoneType" THEN <<"None">>
  ELSE IF val.t = "bool" THEN IF val.v THEN <<"True">> ELSE <<"False">>
  ELSE IF val.t = "int" THEN <<val.v>>
  ELSE IF val.t = "str" THEN <<"'">> \o val.v \o <<"'">>
  ELSE IF val.t = "list" THEN <<"[">> \o Join(<<",", SP>>, ReprItems(val.v)) \o <<"]">>
  ELSE <<"{">> \o Join(<<",", SP>>, ReprMembers(val.v)) \o <<"}">>
ReprItems(s) ==
  IF s = <<>> THEN <<>> ELSE <<PyRepr(Head(s))>> \o ReprItems(Tail(s))
ReprMembers(d) ==
  IF d = <<>> THEN <<>>
  ELSE <<PyRepr(PyStr(Head(d).k)) \o <<":", SP>> \o PyRepr(Head(d).v)>> \o ReprMembers(Tail(d))

\* str(val), what an f-string field renders
PyFormat(val) == IF val.t = "str" THEN val.v ELSE PyRepr(val)

(************ parse_llm_response_to_markdown_table (lines 99-132) **********)
ErrorKey == <<"error">>
EvaluationsKey == <<"evaluations">>
HasIssueKey == <<"has_issue">>
OriginalSentenceKey == <<"original_sentence">>
ReasonKey == <<"reason">>
SuggestionKey == <<"suggestion">>

\* header, line 100 (each Japanese column title is one unit)
Header == <<"|", SP, "H_original", SP, "|", SP, "H_detail", SP, "|", SP,
            "H_suggestion", SP, "|", NL,
            "|", "-----------", "|", "-----------", "|", "---------", "|">>
\* the "no issues found" sentence of line 128, one unit
NoIssuesFound == <<"NO_ISSUES_FOUND">>

\* the row of line 117 for a dict item
Row(item) ==
  <<"|", SP>> \o PyFormat(DictGet(item.v, OriginalSentenceKey, PyStr(<<>>)))
  \o <<SP, "|", SP>> \o PyFormat(DictGet(item.v, ReasonKey, PyStr(<<>>)))
  \o <<SP, "|", SP>> \o PyFormat(DictGet(item.v, SuggestionKey, PyStr(<<>>)))
  \o <<SP, "|">>

\* whether item.get(...) works: only a dict has .get (AttributeError otherwise)
HasGet(val) == val.t = "dict"

AttributeErrorText(val) ==
  PyStr(<<"AttributeError: ", "'", val.t, "'", " object has no attribute 'get'">>)
JSONDecodeErrorText == PyStr(<<"JSONDecodeError: ", "DECODE_ERROR_DETAIL">>)

RECURSIVE ItemLoop(_, _)
\* lines 115-118: the rows after the loop, and the item whose .get failed (0: none)
ItemLoop(items, rows) ==
  IF items = <<>> THEN [rows |-> rows, failed |-> FALSE, culprit |-> PyNone]
  ELSE IF ~HasGet(Head(items))
       THEN [rows |-> rows, failed |-> TRUE, culprit |-> Head(items)]
  ELSE IF Truthy(DictGet(Head(items).v, HasIssueKey, PyNone))
       THEN ItemLoop(Tail(items), Append(rows, Row(Head(items))))
  ELSE ItemLoop(Tail(items), rows)

AggState(rows, evals, errs, exc) ==
  [rows |-> rows, evals |-> evals, errs |-> errs, exc |-> exc]
ParseError(res_str, err) == [response |-> res_str, error |-> err]

\* lines 115-125, the loop over the items having run as loop
AfterItemLoop(res_str, items, loop, evals, errs) ==
  IF loop.failed
  THEN \* line 116 raised AttributeError after line 113 extended the list
       AggState(loop.rows, evals \o items,
                Append(errs, ParseError(res_str, AttributeErrorText(loop.culprit))), "none")
  ELSE AggState(loop.rows, evals \o items, errs, "none")

\* lines 113-118 on the value of data.get("evaluations", [])
OnEvaluations(res_str, evaluations, rows, evals, errs) ==
  IF ~Iterable(evaluations)
  THEN \* line 113: extend with None, bool, int raises TypeError
       AggState(rows, evals, errs, "TypeError")
  ELSE AfterItemLoop(res_str, Iterate(evaluations),
                     ItemLoop(Iterate(evaluations), rows), evals, errs)

\* lines 108-118 on the decoded value
OnDecoded(res_str, data, rows, evals, errs) ==
  IF ~Iterable(data)
  THEN \* line 108: "error" in data on None, bool, int raises TypeError
       AggState(rows, evals, errs, "TypeError")
  ELSE IF Contains(data, ErrorKey)
  THEN IF data.t = "dict"
       THEN \* line 109
            AggState(rows, evals,
                     Append(errs, ParseError(res_str, DictGet(data.v, ErrorKey, PyNone))),
                     "none")
       ELSE \* line 109: data["error"] on a list or a str raises TypeError
            AggState(rows, evals, errs, "TypeError")
  ELSE IF ~HasGet(data)
  THEN \* line 112 raises AttributeError, caught at line 123
       AggState(rows, evals, Append(errs, ParseError(res_str, AttributeErrorText(data))), "none")
  ELSE OnEvaluations(res_str, DictGet(data.v, EvaluationsKey, PyList(<<>>)), rows, evals, errs)

\* lines 107-125 given d, the outcome of json.loads(res_str)
OnLoads(res_str, d, rows, evals, errs) ==
  IF ~d.ok
  THEN \* line 120
       AggState(rows, evals, Append(errs, ParseError(res_str, JSONDecodeErrorText)), "none")
  ELSE OnDecoded(res_str, d.val, rows, evals, errs)

\* one pass of the loop body, lines 105-125, on response res_str.
\* exc is the exception that leaves the function ("none": the loop goes on).
AggIteration(res_str, rows, evals, errs) ==
  OnLoads(res_str, JsonLoads(res_str), rows, evals, errs)

\* the table built without the test of line 127
MakeTableNoSentinel(rows) == Header \o <<NL>> \o Join(<<NL>>, rows)

\* lines 127-130
MakeTable(rows) ==
  IF rows = <<>> THEN NoIssuesFound ELSE Header \o <<NL>> \o Join(<<NL>>, rows)

(******************* evaluate_text_with_llm (lines 35-95) ******************)
\* the keys of rule_mapping, lines 36-42, in the order main lists them
RuleKeys == <<"conciseness", "missing_elements", "ambiguity", "typos", "dependency">>

\* rule_mapping[key]: each fixed description is one unit
RuleMapping(key) ==
  CASE key = "conciseness" -> "DESC_conciseness"
    [] key = "missing_elements" -> "DESC_missing_elements"
    [] key = "ambiguity" -> "DESC_ambiguity"
    [] key = "typos" -> "DESC_typos"
    [] key = "dependency" -> "DESC_dependency"

\* line 43
ActiveRulesText(rules) ==
  Join(<<NL>>, [i \in 1..Len(rules) |-> <<"-", SP, RuleMapping(rules[i])>>])

\* lines 47-74: the fixed parts of the prompt are one unit each
UserPrompt(text_content, rules) ==
  <<NL, "PROMPT_INSTRUCTION", NL>> \o ActiveRulesText(rules)
  \o <<NL, "PROMPT_OUTPUT_EXAMPLE", NL>> \o text_content \o <<NL>>

\* the arguments of client.chat.completions.create, lines 77-84
Request(text_content, rules) ==
  [model |-> "o4-mini", system |-> "SYSTEM_PROMPT",
   user |-> UserPrompt(text_content, rules), max_completion_tokens |-> 4096]

\* re.search(r'\{.*\}', content, re.DOTALL): from the first "{" to the last "}"
RegexSearch(content) ==
  LET opens == {i \in 1..Len(content) : content[i] = "{"}
      first == CHOOSE i \in opens : \A j \in opens : i <= j
      closes == {j \in 1..Len(content) : content[j] = "}" /\ j > first}
      last == CHOOSE j \in closes : \A k \in closes : k <= j
  IN IF opens = {} \/ closes = {}
     THEN [found |-> FALSE, group |-> <<>>]
     ELSE [found |-> TRUE, group |-> SubSeq(content, first, last)]

\* line 92
NoJsonReturn(content) ==
  <<"{", Q, "error", Q, ":", SP, Q,
    "LLM response did not contain a valid JSON object.", Q, ",", SP,
    Q, "raw_response", Q, ":", SP, Q>>
  \o JsonDumps(content) \o <<Q, "}">>

ErrorOpen == <<"{", Q, "error", Q, ":", SP, Q, "An error occurred: ">>
ErrorClose == <<Q, "}">>
\* line 95, msg is str(e)
ExceptReturn(msg) == ErrorOpen \o msg \o ErrorClose

\* str(e) of the TypeError re.search raises on a None content
NoneContentMessage == <<"expected string or bytes-like object, got ", "'", "NoneType", "'">>

Returned(ret) == [exc |-> "none", ret |-> ret]
Raised(exc) == [exc |-> exc, ret |-> <<>>]

\* an except clause naming one exception class of the client library
ExceptClauseNarrow(exc, msg) ==
  IF exc = "APIConnectionError" THEN Returned(ExceptReturn(msg)) ELSE Raised(exc)

\* the except clause of line 94: every Exception is caught and turned into text
ExceptClause(exc, msg) == Returned(ExceptReturn(msg))

\* lines 89-92 given match, the outcome of re.search
OnMatch(match, content) ==
  IF match.found THEN Returned(match.group) ELSE Returned(NoJsonReturn(content))

\* lines 76-95 once the service has behaved as svc:
\* kind "text": message.content is svc.text; "none": it is None; "raise": create throws
EvaluateOutcome(svc) ==
  IF svc.kind = "raise" THEN ExceptClause(svc.exc, svc.text)
  ELSE IF svc.kind = "none" THEN ExceptClause("TypeError", NoneContentMessage)
  ELSE OnMatch(RegexSearch(svc.text), svc.text)

(****************************** main (lines 135-213) ************************)
\* uploaded_file: "None", or the value of uploaded_file.type
DocxType == "application/vnd.openxmlformats-officedocument.wordprocessingml.document"
PdfType == "application/pdf"
FileChoices == {"None", DocxType, PdfType, "application/octet-stream"}

\* line 155: the ticked keys, in the order of the rules dict
SelectedRules(ticked) == SelectSeq(RuleKeys, LAMBDA k : k \in ticked)

\* the check of line 154 without the check of line 156
ValidateFileOnly(file, rules) ==
  IF file = "None" THEN "error_upload_file" ELSE "ok"

\* lines 154-158 and 210-211: the message of the failed check, or "ok"
Validate(file, rules) ==
  IF file = "None" THEN "error_upload_file"
  ELSE IF rules = <<>> THEN "error_select_rule"
  ELSE "ok"

\* lines 161-165: whether an extraction function is called for this type
Extracts(file) == file \in {DocxType, PdfType}

\* one entry of the detail expander, lines 202-208
ItemEntry(item) ==
  IF Truthy(DictGet(item.v, HasIssueKey, PyNone)) THEN <<"item_issue">> ELSE <<"item_ok">>

RECURSIVE RenderItems(_)
\* lines 201-209: the entries shown, and whether item.get raised AttributeError
RenderItems(items) ==
  IF items = <<>> THEN [shown |-> <<>>, exc |-> "none"]
  ELSE IF ~HasGet(Head(items)) THEN [shown |-> <<>>, exc |-> "AttributeError"]
  ELSE LET rest == RenderItems(Tail(items))
       IN [shown |-> ItemEntry(Head(items)) \o rest.shown, exc |-> rest.exc]

\* lines 172-209: what the page shows after aggregation returned
PageWith(items, evals, errs) ==
  [shown |-> <<"success", "summary_heading", "table", "download">>
             \o (IF errs # <<>> THEN <<"parse_errors">> ELSE <<>>)
             \o (IF evals = <<>> /\ errs = <<>> THEN <<"info_nothing_to_check">>
                 ELSE items.shown),
   exc |-> items.exc]
RenderReport(evals, errs) == PageWith(RenderItems(evals), evals, errs)

(************************** inputs of the model ****************************)
JStr(w) == <<Q, w, Q>>
FlaggedItem ==
  <<"{">> \o JStr("original_sentence") \o <<":">> \o JStr("s1") \o <<",">>
  \o JStr("has_issue") \o <<":", "true", ",">>
  \o JStr("reason") \o <<":">> \o JStr("r1") \o <<",">>
  \o JStr("suggestion") \o <<":">> \o JStr("g1") \o <<"}">>
CleanItem ==
  <<"{">> \o JStr("original_sentence") \o <<":">> \o JStr("s2") \o <<",">>
  \o JStr("has_issue") \o <<":", "false", ",">>
  \o JStr("reason") \o <<":", Q, Q, ",">>
  \o JStr("suggestion") \o <<":", Q, Q, "}">>
BareFlaggedItem == <<"{">> \o JStr("has_issue") \o <<":", "true", "}">>
BracedItem ==
  <<"{">> \o JStr("original_sentence") \o <<":", Q, "a", "{", "b", "}", Q, ",">>
  \o JStr("has_issue") \o <<":", "true", "}">>
Evaluations(arr) == <<"{">> \o JStr("evaluations") \o <<":">> \o arr \o <<"}">>
Arr(elems) == <<"[">> \o Join(<<",">>, elems) \o <<"]">>

\* responses that decode to an object with an evaluations array of objects, or none
WellFormedResponses ==
  { Evaluations(Arr(<<FlaggedItem, CleanItem>>)),
    Evaluations(Arr(<<CleanItem>>)),
    Evaluations(Arr(<<BareFlaggedItem>>)),
    Evaluations(Arr(<<BracedItem>>)),
    Evaluations(Arr(<<>>)),
    <<"{", "}">> }

\* responses carrying an error key, and responses that do not decode
FailureResponses ==
  { <<"{">> \o JStr("error") \o <<":">> \o JStr("boom") \o <<"}">>,
    <<"{">> \o JStr("error") \o <<":">> \o JStr("x") \o <<",">>
      \o JStr("evaluations") \o <<":">> \o Arr(<<FlaggedItem>>) \o <<"}">>,
    <<"oops">>,
    <<>>,
    <<"{">> \o JStr("evaluations") \o <<":", "[">>,
    NoJsonReturn(<<"hello">>),
    ExceptReturn(<<"timeout">>) }

\* responses that decode, to something other than the schema of the prompt
MalformedResponses ==
  { <<"1">>, <<"null">>, <<"[", "1", "]">>, JStr("error"), JStr("x"),
    <<"[">> \o JStr("error") \o <<"]">>,
    Evaluations(Arr(<<FlaggedItem, <<"1">> >>)),
    Evaluations(Arr(<<<<"1">>, FlaggedItem>>)),
    Evaluations(<<"null">>),
    Evaluations(JStr("a")) }

SampleResponses == WellFormedResponses \cup FailureResponses \cup MalformedResponses

RECURSIVE SeqsUpTo(_, _)
\* the sequences over S of length at most n
SeqsUpTo(S, n) ==
  IF n = 0 THEN {<<>>}
  ELSE LET shorter == SeqsUpTo(S, n - 1)
       IN shorter \cup {Append(q, x) : q \in shorter, x \in S}

ResponseLists == SeqsUpTo(SampleResponses, MaxResponses)

\* what message.content may hold
Contents ==
  WellFormedResponses
  \cup { <<"Here", SP, "is", ":", SP>> \o Evaluations(Arr(<<FlaggedItem>>)),
         <<"see", SP, "{", "x", "}", ":", SP>> \o Evaluations(Arr(<<FlaggedItem>>)),
         <<"a", "}", SP>> \o Evaluations(Arr(<<CleanItem>>)),
         <<"CODE_FENCE", "json", NL>> \o Evaluations(Arr(<<FlaggedItem>>)) \o <<NL, "CODE_FENCE">>,
         Evaluations(Arr(<<CleanItem>>)) \o <<SP, "bye", SP, "}">>,
         <<"hello">>, <<>>, <<"}", SP, "{">>, <<"say", SP, Q, "hi", Q, NL>>,
         <<"{">> \o JStr("error") \o <<":">> \o JStr("boom") \o <<"}">>,
         Evaluations(<<"null">>),
         Evaluations(Arr(<<FlaggedItem, <<"1">> >>)),
         Evaluations(Arr(<<<<"1">>, FlaggedItem>>)) }

\* how the model service may behave on one call
ServiceBehaviours ==
  {[kind |-> "text", exc |-> "none", text |-> c] : c \in Contents}
  \cup {[kind |-> "none", exc |-> "none", text |-> <<>>]}
  \cup {[kind |-> "raise", exc |-> "APIConnectionError", text |-> <<"timeout">>],
        [kind |-> "raise", exc |-> "AuthenticationError", text |-> <<"bad", SP, Q, "key", Q>>]}

NoService == [kind |-> "unset", exc |-> "none", text |-> <<>>]

\* the texts a unit may hold
UnitTexts == {<<>>, <<"DOC_TEXT">>}
\* what an extraction function may do: return a text, or raise
ExtractOutcomes(file) ==
  IF Extracts(file)
  THEN {[exc |-> "none", text |-> t] : t \in UnitTexts}
       \cup {[exc |-> "ExtractionError", text |-> <<>>]}
  ELSE {[exc |-> "none", text |-> <<>>]}

RuleSelections == {S \in SUBSET {RuleKeys[i] : i \in 1..Len(RuleKeys)} : Cardinality(S) <= MaxRules}

(******************************** the machine ******************************)
Init ==
  /\ pc = "idle"
  /\ caller = "none"
  /\ uploaded_file = "None"
  /\ selected_rules = <<>>
  /\ text = <<>>
  /\ service = NoService
  /\ requests = <<>>
  /\ llm_response = <<>>
  /\ responses = <<>>
  /\ idx = 0
  /\ issue_rows = <<>>
  /\ all_evaluations = <<>>
  /\ parsing_errors = <<>>
  /\ table = <<>>
  /\ raised = "none"
  /\ ui = <<>>

\* a direct call of parse_llm_response_to_markdown_table(rs): lines 100-103
CallAggregate(rs) ==
  /\ pc = "idle"
  /\ pc' = "agg"
  /\ caller' = "unit"
  /\ responses' = rs
  /\ idx' = 1
  /\ issue_rows' = <<>>
  /\ all_evaluations' = <<>>
  /\ parsing_errors' = <<>>
  /\ UNCHANGED <<uploaded_file, selected_rules, text, service, requests,
                 llm_response, table, raised, ui>>

\* the loop variables after a pass that ended as r
LoopUpdate(r) ==
  /\ issue_rows' = r.rows
  /\ all_evaluations' = r.evals
  /\ parsing_errors' = r.errs
  /\ raised' = r.exc
  /\ pc' = IF r.exc = "none" THEN "agg" ELSE "agg_raised"
  /\ idx' = IF r.exc = "none" THEN idx + 1 ELSE idx

\* one pass of the loop of line 105
AggStep ==
  /\ pc = "agg"
  /\ idx <= Len(responses)
  /\ LoopUpdate(AggIteration(responses[idx], issue_rows, all_evaluations, parsing_errors))
  /\ UNCHANGED <<caller, uploaded_file, selected_rules, text, service, requests,
                 llm_response, responses, table, ui>>

\* lines 127-132, after the last response
AggReturn ==
  /\ pc = "agg"
  /\ idx > Len(responses)
  /\ table' = MakeTable(issue_rows)
  /\ pc' = "agg_done"
  /\ UNCHANGED <<caller, uploaded_file, selected_rules, text, service, requests,
                 llm_response, responses, idx, issue_rows, all_evaluations,
                 parsing_errors, raised, ui>>

\* a direct call of evaluate_text_with_llm(t, rules), up to the request of line 77
CallEvaluate(t, ticked) ==
  /\ pc = "idle"
  /\ caller' = "unit"
  /\ text' = t
  /\ selected_rules' = SelectedRules(ticked)
  /\ requests' = Append(requests, Request(t, SelectedRules(ticked)))
  /\ pc' = "eval_wait"
  /\ UNCHANGED <<uploaded_file, service, llm_response, responses, idx, issue_rows,
                 all_evaluations, parsing_errors, table, raised, ui>>

\* the call of evaluate_text_with_llm ends as out
EvaluateEnds(out) ==
  /\ llm_response' = out.ret
  /\ raised' = out.exc
  /\ pc' = IF out.exc = "none" THEN "eval_done" ELSE "eval_raised"

\* the service behaves as svc and lines 85-95 run
ServiceReply(svc) ==
  /\ pc = "eval_wait"
  /\ service' = svc
  /\ EvaluateEnds(EvaluateOutcome(svc))
  /\ UNCHANGED <<caller, uploaded_file, selected_rules, text, requests, responses,
                 idx, issue_rows, all_evaluations, parsing_errors, table, ui>>

\* lines 154-158, 210-211: a failed check is shown and ends the run
Checked(check) ==
  /\ ui' = IF check = "ok" THEN ui ELSE Append(ui, check)
  /\ pc' = IF check = "ok" THEN "extract" ELSE "done"

\* the button of line 153 is pressed with this upload and these boxes ticked
Click(file, ticked) ==
  /\ pc = "idle"
  /\ caller' = "main"
  /\ uploaded_file' = file
  /\ selected_rules' = IF file = "None" THEN <<>> ELSE SelectedRules(ticked)
  /\ Checked(Validate(file, SelectedRules(ticked)))
  /\ UNCHANGED <<text, service, requests, llm_response, responses, idx, issue_rows,
                 all_evaluations, parsing_errors, table, raised>>

\* lines 161-165; an exception of the extraction is caught at line 212
Extract(out) ==
  /\ pc = "extract"
  /\ out \in ExtractOutcomes(uploaded_file)
  /\ text' = out.text
  /\ raised' = out.exc
  /\ ui' = IF out.exc = "none" THEN ui ELSE Append(ui, "unexpected_error")
  /\ pc' = IF out.exc = "none" THEN "main_eval" ELSE "done"
  /\ UNCHANGED <<caller, uploaded_file, selected_rules, service, requests,
                 llm_response, responses, idx, issue_rows, all_evaluations,
                 parsing_errors, table>>

\* line 167, up to the request of line 77
MainEvaluate ==
  /\ pc = "main_eval"
  /\ requests' = Append(requests, Request(text, selected_rules))
  /\ pc' = "eval_wait"
  /\ UNCHANGED <<caller, uploaded_file, selected_rules, text, service, llm_response,
                 responses, idx, issue_rows, all_evaluations, parsing_errors, table,
                 raised, ui>>

\* line 170: the aggregator is called on the one response
MainAggregate ==
  /\ pc = "eval_done"
  /\ caller = "main"
  /\ responses' = <<llm_response>>
  /\ idx' = 1
  /\ issue_rows' = <<>>
  /\ all_evaluations' = <<>>
  /\ parsing_errors' = <<>>
  /\ pc' = "agg"
  /\ UNCHANGED <<caller, uploaded_file, selected_rules, text, service, requests,
                 llm_response, table, raised, ui>>

\* the page after rendering went as page
Shown(page) ==
  /\ ui' = IF page.exc = "none" THEN ui \o page.shown
           ELSE ui \o page.shown \o <<"unexpected_error">>
  /\ raised' = page.exc

\* lines 172-209; an AttributeError of line 202 is caught at line 212
MainRender ==
  /\ pc = "agg_done"
  /\ caller = "main"
  /\ Shown(RenderReport(all_evaluations, parsing_errors))
  /\ pc' = "done"
  /\ UNCHANGED <<caller, uploaded_file, selected_rules, text, service, requests,
                 llm_response, responses, idx, issue_rows, all_evaluations,
                 parsing_errors, table>>

\* lines 212-213: an exception left evaluate or the aggregator
MainExcept ==
  /\ pc \in {"agg_raised", "eval_raised"}
  /\ caller = "main"
  /\ ui' = Append(ui, "unexpected_error")
  /\ pc' = "done"
  /\ UNCHANGED <<caller, uploaded_file, selected_rules, text, service, requests,
                 llm_response, responses, idx, issue_rows, all_evaluations,
                 parsing_errors, table, raised>>

Next ==
  \/ \E rs \in ResponseLists : CallAggregate(rs)
  \/ AggStep
  \/ AggReturn
  \/ \E t \in UnitTexts, ticked \in RuleSelections : CallEvaluate(t, ticked)
  \/ \E svc \in ServiceBehaviours : ServiceReply(svc)
  \/ \E file \in FileChoices, ticked \in RuleSelections : Click(file, ticked)
  \/ \E out \in ExtractOutcomes(uploaded_file) : Extract(out)
  \/ MainEvaluate
  \/ MainAggregate
  \/ MainRender
  \/ MainExcept

Spec == Init /\ [][Next]_vars

(********************************* claims **********************************)
Has(seq, x) == \E i \in 1..Len(seq) : seq[i] = x

\* the response decodes to a JSON object
DecodesToObject(res) == JsonLoads(res).ok /\ JsonLoads(res).val.t = "dict"
\* the response is Failure-shaped: it does not decode, or carries an error key
FailureShaped(res) ==
  \/ ~JsonLoads(res).ok
  \/ DecodesToObject(res) /\ KeyIndex(JsonLoads(res).val.v, ErrorKey) # 0
\* the value of the evaluations member of a decoded object, an absent one being empty
EvaluationsOf(res) == DictGet(JsonLoads(res).val.v, EvaluationsKey, PyList(<<>>))
\* the response is Success-shaped: an object without error key whose evaluations,
\* if present, is an array
SuccessShaped(res) ==
  /\ DecodesToObject(res)
  /\ ~FailureShaped(res)
  /\ EvaluationsOf(res).t = "list"
\* the items a response is to contribute to all_items
ItemsOf(res) == IF SuccessShaped(res) THEN EvaluationsOf(res).v ELSE <<>>
\* the item is an object whose has_issue is true
Flagged(item) == item.t = "dict" /\ DictGet(item.v, HasIssueKey, PyNone) = PyBool(TRUE)
ExpectedItems == Cat([i \in 1..Len(responses) |-> ItemsOf(responses[i])])
ExpectedRows ==
  LET flagged == SelectSeq(ExpectedItems, Flagged)
  IN [i \in 1..Len(flagged) |-> Row(flagged[i])]

\* C1: for every sequence of raw responses the aggregator returns a report
\* without raising; every response that fails to decode or carries an error
\* key has a parse_errors entry holding its raw text, and every response of
\* the sequence is processed.
C1_AggregateNeverRaises ==
  /\ pc # "agg_raised"
  /\ pc = "agg_done" =>
       /\ idx = Len(responses) + 1
       /\ \A i \in 1..Len(responses) :
            FailureShaped(responses[i]) =>
              \E e \in 1..Len(parsing_errors) : parsing_errors[e].response = responses[i]

\* C2: all_items is the concatenation, in response order and in-array order, of
\* the items of the evaluations array of each Success-shaped response, and the
\* issues table holds exactly the rows of the items whose has_issue is true, in
\* that order (stated for lists whose responses are all Failure- or
\* Success-shaped).
C2_AllItemsAndRows ==
  (/\ pc = "agg_done"
   /\ \A i \in 1..Len(responses) :
        FailureShaped(responses[i]) \/ SuccessShaped(responses[i]))
  => /\ all_evaluations = ExpectedItems
     /\ table = MakeTable(ExpectedRows)

\* C3: evaluate_text_with_llm never raises; when the service call throws, the
\* returned string is the error object text around the exception message.
C3_EvaluateNeverRaises ==
  /\ pc # "eval_raised"
  /\ pc = "eval_done" => raised = "none"
  /\ service.kind = "raise" =>
       /\ llm_response = ErrorOpen \o service.text \o ErrorClose
       /\ Has(llm_response, "error")
C3_Witness ==
  /\ pc = "eval_done"
  /\ service.kind = "raise"
  /\ service.exc = "AuthenticationError"
  /\ llm_response = ExceptReturn(service.text)

\* C4: when the service returns prose followed by a valid JSON object, the
\* return value is exactly that object's text.
C4_ReturnsExactlyTheObject ==
  (pc = "eval_done" /\ service.kind = "text") =>
    \A k \in 1..Len(service.text) :
      (/\ service.text[k] = "{"
       /\ DecodesToObject(SubSeq(service.text, k, Len(service.text))))
      => llm_response = SubSeq(service.text, k, Len(service.text))

\* C5: when the service returns text without a "{"..."}" pair, the return value
\* decodes as a JSON object with an error key that holds the original text.
C5_NoJsonGivesErrorObject ==
  (pc = "eval_done" /\ service.kind = "text" /\ ~RegexSearch(service.text).found) =>
    /\ DecodesToObject(llm_response)
    /\ KeyIndex(JsonLoads(llm_response).val.v, ErrorKey) # 0
    /\ \E i \in 1..Len(JsonLoads(llm_response).val.v) :
         JsonLoads(llm_response).val.v[i].v = PyStr(service.text)

\* C6: in a run of main the service is called only after a file was uploaded
\* and a rule selected; otherwise the run ends on the validation message, with
\* no request and no report.
C6_NoCallWithoutFileAndRule ==
  caller = "main" =>
    /\ requests # <<>> => (uploaded_file # "None" /\ selected_rules # <<>>)
    /\ (uploaded_file = "None" \/ selected_rules = <<>>) =>
         /\ pc = "done"
         /\ requests = <<>>
         /\ ui \in {<<"error_upload_file">>, <<"error_select_rule">>}
         /\ ui = <<"error_upload_file">> <=> uploaded_file = "None"
         /\ table = <<>>
C6_Witness ==
  /\ caller = "main"
  /\ pc = "done"
  /\ uploaded_file = PdfType
  /\ selected_rules = <<>>
  /\ ui = <<"error_select_rule">>

\* C7: every run of main that passed validation and issued its request ends
\* with the completed report and without the generic failure message.
C7_AlwaysCompletedReport ==
  (caller = "main" /\ pc = "done" /\ requests # <<>>) =>
    /\ Has(ui, "success")
    /\ Has(ui, "table")
    /\ ~Has(ui, "unexpected_error")

C9_OneVariantPerResponse ==
  [][(/\ pc = "agg"
      /\ idx <= Len(responses)
      /\ FailureShaped(responses[idx]) \/ SuccessShaped(responses[idx])
      /\ Len(parsing_errors') > Len(parsing_errors))
     => (all_evaluations' = all_evaluations /\ issue_rows' = issue_rows)]_vars

\* C10: when extraction yields empty text the run issues no evaluation request.
C10_EmptyTextIsSkipped ==
  (caller = "main" /\ text = <<>>) => requests = <<>>

====
